---- MODULE Spec2Model ----
(***************************************************************************)
(* Model of kiwi's runtime client, src/runtime/client.py: run(kiwi, args). *)
(* One process invocation runs one command (list / get / update /          *)
(* self-update) against the kiwi namespace: the installed-module store,    *)
(* the remote registry, the fetch engine, the confirmation prompt and the  *)
(* runtime updater.                                                        *)
(***************************************************************************)
EXTENDS Integers, Sequences, FiniteSets, TLC

(* ------------------------------------------------------------------ *)
(* Bounds and universes                                                *)
(* ------------------------------------------------------------------ *)

\* longest module-argument list given on the command line
MaxArgs == 2

\* module names known to the world of one invocation
Modules == {"a", "b", "c"}

\* the sentinel argument
All == "all"

ArgNames == Modules \cup {All}

(* ------------------------------------------------------------------ *)
(* List helpers (Python list semantics)                                *)
(* ------------------------------------------------------------------ *)

Range(s) == {s[i] : i \in 1..Len(s)}

\* `x in lst`
InList(x, s) == \E i \in 1..Len(s) : s[i] = x

\* lst.remove(x): drops the first occurrence
RECURSIVE Remove(_, _)
Remove(s, x) ==
    IF s = <<>> THEN <<>>
    ELSE IF Head(s) = x THEN Tail(s)
    ELSE <<Head(s)>> \o Remove(Tail(s), x)

\* every duplicate-free ordering of a set
Perms(S) ==
    {s \in [1..Cardinality(S) -> S] : \A i, j \in 1..Cardinality(S) : s[i] = s[j] => i = j}

DupFreeSeqs(S) == UNION {Perms(T) : T \in SUBSET S}

SeqsUpTo(S, n) == UNION {[1..k -> S] : k \in 1..n}

(* ------------------------------------------------------------------ *)
(* Command line (argparse namespace)                                   *)
(* An optional list is {} for None and {lst} for a given list.         *)
(* ------------------------------------------------------------------ *)

None == {}

Given(opt) == CHOOSE s \in opt : TRUE

\* Python truthiness of an optional list: not None and not empty
Truthy(opt) == opt # None /\ Given(opt) # <<>>

ListArgs ==
    [list_modules |-> TRUE, get_modules |-> None, update_modules |-> None, self_update |-> FALSE]

GetArgs(names) ==
    [list_modules |-> FALSE, get_modules |-> {names}, update_modules |-> None, self_update |-> FALSE]

UpdateArgs(names) ==
    [list_modules |-> FALSE, get_modules |-> None, update_modules |-> {names}, self_update |-> FALSE]

SelfUpdateArgs ==
    [list_modules |-> FALSE, get_modules |-> None, update_modules |-> None, self_update |-> TRUE]

\* the four command intents
Commands ==
    {ListArgs, SelfUpdateArgs}
        \cup {GetArgs(n) : n \in SeqsUpTo(ArgNames, MaxArgs)}
        \cup {UpdateArgs(n) : n \in SeqsUpTo(ArgNames, MaxArgs)}

(* ------------------------------------------------------------------ *)
(* Output lines and the log of calls into the kiwi namespace           *)
(* ------------------------------------------------------------------ *)

Line(kind, text, n) == [kind |-> kind, text |-> text, n |-> n]

Say(text) == Line("say", text, 0)

Mark(mark, module) == Line(mark, module, 0)

CountLine(text, n) == Line("count", text, n)

Call(op, mods, update, answer) == [op |-> op, mods |-> mods, update |-> update, answer |-> answer]

CallInstalled == Call("get_installed_module_list", <<>>, FALSE, "")

CallRemote == Call("get_remote_module_list", <<>>, FALSE, "")

CallFetch(mods, update) == Call("fetch_modules", mods, update, "")

CallAsk(answer) == Call("ask", <<>>, FALSE, answer)

CallRuntimeUpdate == Call("runtime.update", <<>>, FALSE, "")

(* ------------------------------------------------------------------ *)
(* Installed-module store and registry (the kiwi namespace)            *)
(* ------------------------------------------------------------------ *)

\* kiwi.get_installed_module_list(): a fresh listing of the store, in any order
get_installed_module_list(st) == Perms(st)

\* kiwi.get_remote_module_list(): a duplicate-free list of names, or a
\* requests.exceptions.RequestException (ok = FALSE)
RemoteResults ==
    {[ok |-> FALSE, list |-> <<>>]}
        \cup {[ok |-> TRUE, list |-> r] : r \in DupFreeSeqs(Modules)}

\* declared dependencies of the catalog's modules: none, a chain c -> b -> a,
\* and a cycle a -> b -> a
NoDeps == [m \in Modules |-> <<>>]

ChainDeps == [m \in Modules |-> IF m = "b" THEN <<"a">> ELSE IF m = "c" THEN <<"b">> ELSE <<>>]

CycleDeps == [m \in Modules |-> IF m = "a" THEN <<"b">> ELSE IF m = "b" THEN <<"a">> ELSE <<>>]

DepsChoices == {NoDeps, ChainDeps, CycleDeps}

\* a snapshot of the remote catalog as one engine call sees it: the names it
\* advertises, those whose download fails, those whose remote content differs
\* from an installed copy, and the declared dependencies
WellFormed(cat) == cat.broken \subseteq cat.names /\ cat.changed \subseteq cat.names

Catalogs ==
    {cat \in [names : SUBSET Modules, broken : SUBSET Modules,
              changed : SUBSET Modules, deps : DepsChoices] : WellFormed(cat)}

(* ------------------------------------------------------------------ *)
(* Dependency resolver and synchronization engine                      *)
(* ------------------------------------------------------------------ *)

\* depth-first traversal over dependencies, skipping installed names and names
\* already collected; a cycle or a name absent from the catalog fails
RECURSIVE Visit(_, _, _, _, _)
RECURSIVE VisitAll(_, _, _, _, _)
Visit(m, path, acc, inst, cat) ==
    IF ~acc.ok THEN acc
    ELSE IF m \in inst \/ InList(m, acc.order) THEN acc
    ELSE IF m \in path \/ m \notin cat.names THEN [ok |-> FALSE, order |-> acc.order]
    ELSE LET sub == VisitAll(cat.deps[m], path \cup {m}, acc, inst, cat)
         IN  IF sub.ok THEN [ok |-> TRUE, order |-> Append(sub.order, m)] ELSE sub

VisitAll(ds, path, acc, inst, cat) ==
    IF ds = <<>> THEN acc
    ELSE VisitAll(Tail(ds), path, Visit(Head(ds), path, acc, inst, cat), inst, cat)

\* the uninstalled dependencies of m, dependencies first, then m itself
Resolve(m, inst, cat) ==
    IF m \notin cat.names THEN [ok |-> FALSE, order |-> <<>>]
    ELSE LET sub == VisitAll(cat.deps[m], {m}, [ok |-> TRUE, order |-> <<>>], inst, cat)
         IN  IF sub.ok THEN [ok |-> TRUE, order |-> Append(sub.order, m)] ELSE sub

\* download and install the resolved modules in order; the first failing
\* download stops the chain
RECURSIVE InstallAll(_, _, _)
InstallAll(order, cat, st) ==
    IF order = <<>> THEN [st EXCEPT !.ok = TRUE]
    ELSE IF Head(order) \in cat.broken THEN [st EXCEPT !.ok = FALSE]
    ELSE InstallAll(Tail(order), cat,
                    [st EXCEPT !.store = @ \cup {Head(order)},
                               !.fetched = Append(@, Head(order))])

\* one requested module of a fetch (update = FALSE) or update (update = TRUE)
FetchOne(m, update, cat, st) ==
    IF ~update /\ m \in st.store
    THEN IF m \in cat.changed THEN [st EXCEPT !.update = Append(@, m)] ELSE st
    ELSE LET r == Resolve(m, st.store, cat)
         IN  IF ~r.ok THEN [st EXCEPT !.failed = Append(@, m)]
             ELSE LET done == InstallAll(r.order, cat, st)
                  IN  IF done.ok THEN done ELSE [done EXCEPT !.failed = Append(@, m)]

RECURSIVE FetchEach(_, _, _, _)
FetchEach(modules, update, cat, st) ==
    IF modules = <<>> THEN st
    ELSE FetchEach(Tail(modules), update, cat, FetchOne(Head(modules), update, cat, st))

\* kiwi.fetch_modules(modules, update): the triple (fetched, updatable, failed)
\* and the store it leaves behind
fetch_modules(modules, update, st, cat) ==
    FetchEach(modules, update, cat,
              [store |-> st, fetched |-> <<>>, update |-> <<>>, failed |-> <<>>, ok |-> TRUE])

(* ------------------------------------------------------------------ *)
(* run(kiwi, args): pure parts                                         *)
(* ------------------------------------------------------------------ *)

\* variant of LocalOnly: nothing is marked, every installed module is left
\* for the unknown-modules loop
LocalOnlyNone(installed) == <<>>

\* line 18: modules = installed[:], the list to mark when the registry cannot
\* be reached
LocalOnly(installed) == installed

\* variant of StoreAfterRemove: the removal reaches the store
StoreAfterRemoveAliased(st, installed) == Range(installed)

\* lines 23-24: the store after `installed.remove(module)`, which acts on the
\* list run() holds, not on the store
StoreAfterRemove(st, installed) == st

\* variant of MarkModules: lines 21-24 without the removal
RECURSIVE MarkModulesKeep(_, _, _)
MarkModulesKeep(modules, installed, lines) ==
    IF modules = <<>> THEN [out |-> lines, installed |-> installed]
    ELSE LET module == Head(modules)
             mark   == IF InList(module, installed) THEN "x" ELSE " "
         IN  MarkModulesKeep(Tail(modules), installed, Append(lines, Mark(mark, module)))

\* lines 21-24: compare modules and mark as installed
RECURSIVE MarkModules(_, _, _)
MarkModules(modules, installed, lines) ==
    IF modules = <<>> THEN [out |-> lines, installed |-> installed]
    ELSE LET module == Head(modules)
             mark   == IF InList(module, installed) THEN "x" ELSE " "
             rest   == IF InList(module, installed) THEN Remove(installed, module) ELSE installed
         IN  MarkModules(Tail(modules), rest, Append(lines, Mark(mark, module)))

\* lines 27-28: list unknown modules
UnknownModules(installed) == [i \in 1..Len(installed) |-> Mark("?", installed[i])]

\* line 31
IsFetchOrUpdate(a) == Truthy(a.get_modules) \/ Truthy(a.update_modules)

\* line 32
Requested(a) == IF Truthy(a.get_modules) THEN Given(a.get_modules) ELSE Given(a.update_modules)

\* variant of UsageConflict: one argument beside 'all' is let through
UsageConflictLax(modules) == InList(All, modules) /\ Len(modules) > 2

\* lines 35-36: 'all' together with other arguments
UsageConflict(modules) == InList(All, modules) /\ Len(modules) > 1

\* variant of AllSource: the two lists swapped
AllSourceSwapped(a) == IF Truthy(a.get_modules) THEN "installed" ELSE "remote"

\* lines 45-52: the list 'all' stands for, the remote one if fetching and the
\* local one if updating
AllSource(a) == IF Truthy(a.get_modules) THEN "remote" ELSE "installed"

\* line 41: sys.exit(1) on a usage conflict
ConflictStatus == 1

\* variant of UnreachableStatus: the failure exits with status 0
UnreachableStatusZero == 1 - 1

\* line 50: sys.exit(1) when get all cannot reach the registry
UnreachableStatus == 1

\* line 55: the update flag, args.update_modules != None
UpdateFlag(a) == a.update_modules # None

\* lines 58-64: fetch results
FetchResults(a, modules, fetched, update, failed) ==
    IF Truthy(a.get_modules)
    THEN <<Say("fetch results"),
           CountLine("new modules fetched", Len(fetched)),
           CountLine("modules could not be fetched", Len(failed)),
           CountLine("modules have an available update", Len(update))>>
         \o (IF Len(modules) # Len(fetched) + Len(update) + Len(failed)
             THEN <<CountLine("modules are present and up to date",
                              Len(modules) - Len(fetched) - Len(update) - Len(failed))>>
             ELSE <<>>)
    ELSE <<>>

\* variant of NeedsPrompt: the prompt comes even with nothing to update
NeedsPromptAlways(update) == Len(update) >= 0

\* line 67: len(modules_update) > 0
NeedsPrompt(update) == Len(update) > 0

\* variant of Confirmed: the answer is ignored
ConfirmedAnyway(answer) == TRUE

\* line 68: the answer is 'y'
Confirmed(answer) == answer = "y"

\* variant of DeclineStatus: declining exits with status 1
DeclineStatusOne == 0 + 1

\* line 71: sys.exit(0) when the update is declined
DeclineStatus == 0

\* lines 74-77: update results
UpdateResults(a, update, fetched, failed) ==
    IF Truthy(a.update_modules) \/ Len(update) > 0
    THEN <<Say("update results"),
           CountLine("modules were updated", Len(fetched)),
           CountLine("modules could not be updated", Len(failed))>>
    ELSE <<>>

(* ------------------------------------------------------------------ *)
(* State                                                               *)
(* ------------------------------------------------------------------ *)

VARIABLES
    args,             \* the parsed command line
    store,            \* the installed-module store (InstalledSet)
    store0,           \* the store when the command started
    registry,         \* what get_remote_module_list answered, if called
    pc,               \* position in run(): start, fetch, ask, refetch, done
    exit_status,      \* process exit status, -1 while running
    out,              \* lines printed so far
    calls,            \* calls made into the kiwi namespace, in order
    installed,        \* run()'s local list `installed`
    modules,          \* run()'s local list `modules`
    modules_fetched,
    modules_update,
    modules_failed

vars == <<args, store, store0, registry, pc, exit_status, out, calls, installed,
          modules, modules_fetched, modules_update, modules_failed>>

locals == <<installed, modules, modules_fetched, modules_update, modules_failed>>

Init ==
    /\ args \in Commands
    /\ store \in SUBSET Modules
    /\ store0 = store
    /\ registry = [state |-> "uncalled", list |-> <<>>]
    /\ pc = "start"
    /\ exit_status = -1
    /\ out = <<>>
    /\ calls = <<>>
    /\ installed = <<>>
    /\ modules = <<>>
    /\ modules_fetched = <<>>
    /\ modules_update = <<>>
    /\ modules_failed = <<>>

Answered(r) == [state |-> IF r.ok THEN "ok" ELSE "unreachable", list |-> r.list]

(* ------------------------------------------------------------------ *)
(* run(kiwi, args)                                                     *)
(* ------------------------------------------------------------------ *)

\* lines 10-28: list modules
ListModules ==
    /\ pc = "start"
    /\ args.list_modules
    /\ \E lst \in get_installed_module_list(store), r \in RemoteResults :
        LET warning == IF r.ok THEN <<>>
                       ELSE <<Say("could not reach remote to fetch module list, listing local modules only")>>
            listed  == IF r.ok THEN r.list ELSE LocalOnly(lst)
            marked  == MarkModules(listed, lst, warning)
        IN  /\ registry' = Answered(r)
            /\ calls' = calls \o <<CallInstalled, CallRemote>>
            /\ modules' = listed
            /\ installed' = marked.installed
            /\ out' = out \o marked.out \o UnknownModules(marked.installed)
            /\ store' = StoreAfterRemove(store, marked.installed)
    /\ pc' = "done"
    /\ exit_status' = 0
    /\ UNCHANGED <<args, store0, modules_fetched, modules_update, modules_failed>>

\* lines 35-41: 'all' with other modules listed
RejectConflict ==
    /\ UsageConflict(Requested(args))
    /\ out' = out \o <<Say("can't have 'all' argument with other modules listed"),
                       Line("print", "Possible solutions:", 0)>>
    /\ pc' = "done"
    /\ exit_status' = ConflictStatus
    /\ UNCHANGED <<registry, calls, locals>>

\* lines 45-50: get all
CollectRemote ==
    /\ \E r \in RemoteResults :
        /\ registry' = Answered(r)
        /\ calls' = Append(calls, CallRemote)
        /\ IF r.ok
           THEN /\ modules' = r.list
                /\ pc' = "fetch"
                /\ UNCHANGED <<out, exit_status>>
           ELSE /\ out' = Append(out, Say("could not reach remote to fetch module list"))
                /\ pc' = "done"
                /\ exit_status' = UnreachableStatus
                /\ UNCHANGED modules
    /\ UNCHANGED <<installed, modules_fetched, modules_update, modules_failed>>

\* lines 51-52: update all
CollectInstalled ==
    /\ \E lst \in get_installed_module_list(store) : modules' = lst
    /\ calls' = Append(calls, CallInstalled)
    /\ pc' = "fetch"
    /\ UNCHANGED <<registry, out, exit_status, installed,
                   modules_fetched, modules_update, modules_failed>>

\* lines 31-52: collect the modules to fetch or update
CollectModules ==
    /\ pc = "start"
    /\ ~args.list_modules
    /\ IsFetchOrUpdate(args)
    /\ IF InList(All, Requested(args))
       THEN IF UsageConflict(Requested(args)) THEN RejectConflict
            ELSE IF AllSource(args) = "remote" THEN CollectRemote
            ELSE CollectInstalled
       ELSE /\ modules' = Requested(args)
            /\ pc' = "fetch"
            /\ UNCHANGED <<registry, out, exit_status, calls, installed,
                           modules_fetched, modules_update, modules_failed>>
    /\ UNCHANGED <<args, store, store0>>

\* lines 55-64, and 73-77 when there is nothing to update: fetch / update the
\* collected modules and report
FetchCollected ==
    /\ pc = "fetch"
    /\ \E cat \in Catalogs :
        LET r == fetch_modules(modules, UpdateFlag(args), store, cat)
            report == FetchResults(args, modules, r.fetched, r.update, r.failed)
        IN  /\ store' = r.store
            /\ calls' = Append(calls, CallFetch(modules, UpdateFlag(args)))
            /\ modules_fetched' = r.fetched
            /\ modules_update' = r.update
            /\ modules_failed' = r.failed
            /\ IF NeedsPrompt(r.update)
               THEN /\ out' = out \o report
                    /\ pc' = "ask"
                    /\ UNCHANGED exit_status
               ELSE /\ out' = out \o report \o UpdateResults(args, r.update, r.fetched, r.failed)
                    /\ pc' = "done"
                    /\ exit_status' = 0
    /\ UNCHANGED <<args, store0, registry, installed, modules>>

\* lines 67-68, 70-71: ask before updating the outdated modules
AskUpdate ==
    /\ pc = "ask"
    /\ \E answer \in {"y", "n"} :
        /\ calls' = Append(calls, CallAsk(answer))
        /\ IF Confirmed(answer)
           THEN /\ pc' = "refetch"
                /\ UNCHANGED exit_status
           ELSE /\ pc' = "done"
                /\ exit_status' = DeclineStatus
    /\ UNCHANGED <<args, store, store0, registry, out, locals>>

\* lines 69, 73-77: update the outdated modules and report
UpdateOutdated ==
    /\ pc = "refetch"
    /\ \E cat \in Catalogs :
        LET r == fetch_modules(modules_update, TRUE, store, cat)
        IN  /\ store' = r.store
            /\ calls' = Append(calls, CallFetch(modules_update, TRUE))
            /\ modules_fetched' = r.fetched
            /\ modules_failed' = r.failed
            /\ out' = out \o UpdateResults(args, modules_update, r.fetched, r.failed)
    /\ pc' = "done"
    /\ exit_status' = 0
    /\ UNCHANGED <<args, store0, registry, installed, modules, modules_update>>

\* lines 80-83: kiwi self update
SelfUpdate ==
    /\ pc = "start"
    /\ ~args.list_modules
    /\ ~IsFetchOrUpdate(args)
    /\ args.self_update
    /\ \E updated \in BOOLEAN :
        out' = out \o (IF updated THEN <<Say("I'm up to date")>> ELSE <<>>)
    /\ calls' = Append(calls, CallRuntimeUpdate)
    /\ pc' = "done"
    /\ exit_status' = 0
    /\ UNCHANGED <<args, store, store0, registry, locals>>

Next ==
    \/ ListModules
    \/ CollectModules
    \/ FetchCollected
    \/ AskUpdate
    \/ UpdateOutdated
    \/ SelfUpdate

Spec == Init /\ [][Next]_vars

(* ------------------------------------------------------------------ *)
(* Vocabulary of the properties                                        *)
(* ------------------------------------------------------------------ *)

IsList == args.list_modules

IsGet == ~args.list_modules /\ args.get_modules # None

IsUpdate == ~args.list_modules /\ args.get_modules = None /\ args.update_modules # None

IsSelfUpdate == args = SelfUpdateArgs

Names == IF args.get_modules # None THEN Given(args.get_modules) ELSE Given(args.update_modules)

AllWithOthers == (IsGet \/ IsUpdate) /\ InList(All, Names) /\ Len(Names) > 1

AllAlone == (IsGet \/ IsUpdate) /\ Names = <<All>>

CallsOf(op) == {i \in 1..Len(calls) : calls[i].op = op}

NumCalls(op) == Cardinality(CallsOf(op))

FirstFetch == CHOOSE i \in CallsOf("fetch_modules") : \A j \in CallsOf("fetch_modules") : i <= j

Said(text) == \E i \in 1..Len(out) : out[i] = Say(text)

\* the marks printed for module m by list, in order
RECURSIVE MarksOf(_, _)
MarksOf(m, lines) ==
    IF lines = <<>> THEN <<>>
    ELSE (IF Head(lines).kind \in {"x", " ", "?"} /\ Head(lines).text = m
          THEN <<Head(lines).kind>> ELSE <<>>) \o MarksOf(m, Tail(lines))

Disjoint(s, t) == Range(s) \cap Range(t) = {}

(* ------------------------------------------------------------------ *)
(* Properties                                                          *)
(* ------------------------------------------------------------------ *)

C2_ConflictRejectedBeforeAnyCall ==
    AllWithOthers =>
        /\ NumCalls("get_remote_module_list") = 0
        /\ NumCalls("fetch_modules") = 0
        /\ store = store0
        /\ pc \in {"start", "done"}
        /\ pc = "done" => exit_status > 0

C2_Witness ==
    /\ AllWithOthers /\ pc = "done" /\ exit_status = 1
    /\ calls = <<>> /\ store0 # {}

\* C3: after a get, fetched, updatable and failed are disjoint parts of the
\* requested modules, every reported count is non-negative, and together
\* with the 'present and up to date' count they sum to the number requested.
C3_GetCountsPartitionRequested ==
    (IsGet /\ NumCalls("fetch_modules") = 1) =>
        /\ Range(modules_fetched) \cup Range(modules_update) \cup Range(modules_failed)
               \subseteq Range(modules)
        /\ Disjoint(modules_fetched, modules_update)
        /\ Disjoint(modules_fetched, modules_failed)
        /\ Disjoint(modules_update, modules_failed)
        /\ Len(modules_fetched) + Len(modules_update) + Len(modules_failed) <= Len(modules)
        /\ \A i \in 1..Len(out) : out[i].n >= 0

\* C4: in a get, every engine call after the first is the update of the
\* list the first call returned as updatable, and directly follows a prompt
\* answered 'y'; a prompt answered 'n' is the last call, after which the
\* command is over with status 0 and no update results.
C4_UpdateOnlyAfterConfirmation ==
    IsGet =>
        /\ \A i \in CallsOf("fetch_modules") :
              i # FirstFetch =>
                  /\ calls[i - 1] = CallAsk("y")
                  /\ calls[i] = CallFetch(modules_update, TRUE)
        /\ pc = "refetch" => calls[Len(calls)] = CallAsk("y")
        /\ \A i \in CallsOf("ask") :
              /\ NumCalls("ask") = 1
              /\ i = FirstFetch + 1
              /\ calls[i].answer = "n" =>
                    /\ i = Len(calls)
                    /\ pc = "done"
                    /\ exit_status = 0
                    /\ ~Said("update results")

C4_Witness ==
    /\ IsGet /\ pc = "done"
    /\ NumCalls("fetch_modules") = 2
    /\ calls[Len(calls) - 1] = CallAsk("y")
    /\ Said("update results")

\* C5: list with a reachable registry prints every module of the union of
\* installed and remote names exactly once: 'x' if in both, ' ' if remote
\* only, '?' if installed only.
C5_ListClassifiesUnion ==
    (IsList /\ pc = "done" /\ registry.state = "ok") =>
        \A m \in Modules :
            MarksOf(m, out) =
                IF m \in store0 /\ InList(m, registry.list) THEN <<"x">>
                ELSE IF InList(m, registry.list) THEN <<" ">>
                ELSE IF m \in store0 THEN <<"?">>
                ELSE <<>>

C5_Witness ==
    /\ IsList /\ pc = "done" /\ registry.state = "ok"
    /\ \E x, y, z \in Modules :
        /\ MarksOf(x, out) = <<"x">>
        /\ MarksOf(y, out) = <<" ">>
        /\ MarksOf(z, out) = <<"?">>

\* C6: the exit status is non-zero only for 'all' with other names, or for
\* get all with the registry unreachable; a command that reached the engine
\* ends with status 0 whatever the engine reported as failed, and has
\* reported its results (fetch results for get, update results for update
\* and for an update pass).
C6_OnlyUsageAndRegistryFailuresExitNonZero ==
    /\ exit_status \in {-1, 0, 1}
    /\ exit_status > 0 =>
          \/ AllWithOthers
          \/ (IsGet /\ AllAlone /\ registry.state = "unreachable")
    /\ (pc = "done" /\ NumCalls("fetch_modules") >= 1) =>
          /\ exit_status = 0
          /\ IsGet => Said("fetch results")
          /\ IsUpdate => Said("update results")
          /\ NumCalls("fetch_modules") = 2 => Said("update results")

C6_Witness ==
    /\ pc = "done" /\ exit_status = 0
    /\ NumCalls("fetch_modules") = 2
    /\ modules_failed # <<>>
    /\ Said("fetch results") /\ Said("update results")

\* C7: the first engine call gets the requested names unchanged, or, for
\* 'all' alone, the remote list (get) or a listing of the installed modules
\* (update, with no remote-list call), and its update flag is set iff the
\* command is update.
C7_AllExpandsToRemoteOrInstalled ==
    NumCalls("fetch_modules") >= 1 =>
        LET first == calls[FirstFetch]
        IN  /\ IsGet \/ IsUpdate
            /\ first.update = IsUpdate
            /\ ~InList(All, Names) => first.mods = Names
            /\ (AllAlone /\ IsGet) =>
                  /\ registry.state = "ok"
                  /\ first.mods = registry.list
            /\ (AllAlone /\ IsUpdate) =>
                  /\ first.mods \in Perms(store0)
                  /\ NumCalls("get_remote_module_list") = 0

C7_Witness ==
    /\ IsUpdate /\ AllAlone /\ pc = "done"
    /\ NumCalls("fetch_modules") = 1
    /\ Cardinality(store0) >= 2
    /\ calls[FirstFetch].update

\* C8: get all with the registry unreachable is over with a non-zero status,
\* no engine call, no prompt and the store unchanged.
C8_GetAllUnreachableFails ==
    (IsGet /\ AllAlone /\ registry.state = "unreachable") =>
        /\ pc = "done"
        /\ exit_status > 0
        /\ NumCalls("fetch_modules") = 0
        /\ NumCalls("ask") = 0
        /\ store = store0

C8_Witness ==
    /\ IsGet /\ AllAlone /\ registry.state = "unreachable"
    /\ pc = "done" /\ exit_status = 1 /\ store0 # {}

\* C9 (as stated): a get or update that reaches the engine calls
\* fetch_modules exactly once; self-update calls the runtime update exactly
\* once and the engine never.
C9_ExactlyOneOperation ==
    /\ NumCalls("fetch_modules") <= 1
    /\ (IsSelfUpdate /\ pc = "done") =>
          NumCalls("runtime.update") = 1 /\ NumCalls("fetch_modules") = 0

\* C9 (amended): a get or update that reaches the engine calls fetch_modules
\* once on the collected modules and at most once more, and that only on a
\* non-empty updatable list after the prompt was answered 'y'; list calls
\* neither the engine nor the runtime update; self-update calls the runtime
\* update exactly once and the engine never.
C9_OneOperationPlusConfirmedUpdate ==
    /\ NumCalls("fetch_modules") <= 2
    /\ NumCalls("fetch_modules") = 2 =>
          /\ calls[Len(calls)].op = "fetch_modules"
          /\ calls[Len(calls)].mods # <<>>
          /\ calls[Len(calls) - 1] = CallAsk("y")
    /\ (pc = "done" /\ (IsGet \/ IsUpdate) /\ exit_status = 0) =>
          NumCalls("fetch_modules") >= 1
    /\ NumCalls("fetch_modules") >= 1 => (IsGet \/ IsUpdate)
    /\ NumCalls("runtime.update") >= 1 => IsSelfUpdate
    /\ (IsSelfUpdate /\ pc = "done") =>
          NumCalls("runtime.update") = 1 /\ NumCalls("fetch_modules") = 0

C9_Witness ==
    /\ IsGet /\ AllAlone /\ pc = "done"
    /\ NumCalls("fetch_modules") = 2
    /\ Len(calls[Len(calls)].mods) >= 2

\* C10: list never calls fetch_modules and leaves the store as it found it,
\* although it removes the matched names from the list it works on.
C10_ListLeavesStoreUnchanged ==
    IsList =>
        /\ NumCalls("fetch_modules") = 0
        /\ store = store0

C10_Witness ==
    /\ IsList /\ pc = "done" /\ registry.state = "ok"
    /\ Len(installed) < Cardinality(store0)
    /\ installed # <<>>
    /\ store = store0

====
